---- MODULE Spec2Model ----
(***************************************************************************)
(* UserName::parse of shared-lib/user-model/src/parser/user_name.rs.       *)
(*                                                                         *)
(* A text (Rust String) is a sequence of Unicode scalar values, each a     *)
(* code point.  A caller (thread) passes a text to UserName::parse and     *)
(* walks through its three checks; a caller of SpecCallers may also use    *)
(* the public field of the tuple struct.                                   *)
(***************************************************************************)
EXTENDS Integers, Sequences, FiniteSets

VARIABLES arg, pc, ret, name

vars == <<arg, pc, ret, name>>

\* ------------------------------------------------------------------ bounds

\* Longest prefix and longest suffix put around the body of an input text.
MaxPad == 1

\* Most scalars a caller pushes onto the public field of a name it owns.
MaxPush == 1

\* ------------------------------------------------------------- characters

\* The scalar values the inputs are made of, by code point.
Chr ==
  [a |-> 97, N |-> 78, space |-> 32, ideographic_space |-> 12288,
   cr |-> 13, lf |-> 10, mark |-> 784, slash |-> 47]

\* char::is_whitespace, used by str::trim: the White_Space property.
White_Space ==
  (9..13) \cup {32, 133, 160, 5760} \cup (8192..8202)
    \cup {8232, 8233, 8239, 8287, 12288}

\* Grapheme_Cluster_Break classes of the scalars that occur in the inputs:
\* CR, LF and Extend (U+0310, a combining mark); every other scalar of the
\* inputs is of class Other (none is Control, Prepend, SpacingMark, ZWJ,
\* Hangul, Regional_Indicator or Extended_Pictographic).
GCB(c) ==
  IF c = 13 THEN "CR"
  ELSE IF c = 10 THEN "LF"
  ELSE IF c = 784 THEN "Extend"
  ELSE "Other"

\* UAX #29 on two adjacent scalars: GB3 (CR x LF), GB4 and GB5 (break after
\* and before CR, LF), GB9 (x Extend), GB999 (break everywhere else).
NoBreak(c, d) ==
  IF GCB(c) = "CR" /\ GCB(d) = "LF" THEN TRUE
  ELSE IF GCB(c) \in {"CR", "LF"} \/ GCB(d) \in {"CR", "LF"} THEN FALSE
  ELSE GCB(d) = "Extend"

\* s.graphemes(true): the extended grapheme clusters of str, each given by
\* the index of its first scalar.
graphemes(str) ==
  {i \in 1..Len(str) : i = 1 \/ ~NoBreak(str[i - 1], str[i])}

\* .count() of an iterator.
count(it) == Cardinality(it)

\* str::trim: str without its leading and trailing White_Space scalars.
trim(str) ==
  IF \A i \in 1..Len(str) : str[i] \in White_Space THEN <<>>
  ELSE
    LET first == CHOOSE i \in 1..Len(str) :
                   /\ str[i] \notin White_Space
                   /\ \A j \in 1..(i - 1) : str[j] \in White_Space
        last == CHOOSE i \in 1..Len(str) :
                  /\ str[i] \notin White_Space
                  /\ \A j \in (i + 1)..Len(str) : str[j] \in White_Space
    IN SubSeq(str, first, last)

\* str::is_empty.
is_empty(str) == Len(str) = 0

\* The limit of the length check.
MaxGraphemes == 256

\* ['/', '(', ')', '"', '<', '>', '\\', '{', '}']
forbidden_characters == {47, 40, 41, 34, 60, 62, 92, 123, 125}

\* s.chars().any(|g| forbidden_characters.contains(&g))
contains_forbidden_characters(str) ==
  \E i \in 1..Len(str) : str[i] \in forbidden_characters

\* ------------------------------------------------------------------ values

\* pub struct UserName(pub String): a tuple struct of one field, field 0.
UserName(str) == <<str>>

\* impl AsRef<str> for UserName: &self.0
as_ref(n) == n[1]

\* Result<UserName, UserErrorCode>
Ok(v) == [tag |-> "Ok", val |-> v]

Err(e) == [tag |-> "Err", val |-> e]

\* A caller that has no Result yet, and one that owns no UserName.
NoResult == [tag |-> "None", val |-> "None"]

NoName == <<>>

\* UserName::parse as one function of its argument.
parse(str) ==
  IF is_empty(trim(str)) THEN Err("UserNameIsEmpty")
  ELSE IF count(graphemes(str)) > MaxGraphemes THEN Err("UserNameTooLong")
  ELSE IF contains_forbidden_characters(str)
    THEN Err("UserNameContainForbiddenCharacters")
  ELSE Ok(UserName(str))

\* ------------------------------------------------------------------ inputs

\* unit repeated n times (str::repeat).
Rep(unit, n) ==
  [i \in 1..(n * Len(unit)) |-> unit[((i - 1) % Len(unit)) + 1]]

\* Texts of at most n scalars of the set S.
UpTo(S, n) == UNION {[1..k -> S] : k \in 0..n}

PadChars == {Chr.a, Chr.space, Chr.mark, Chr.slash}

RunLens == {1, MaxGraphemes - 1, MaxGraphemes, MaxGraphemes + 1}

RunUnits ==
  {<<Chr.a>>, <<Chr.space>>, <<Chr.a, Chr.mark>>, <<Chr.cr, Chr.lf>>}

Bodies ==
  {Rep(u, n) : u \in RunUnits, n \in RunLens}
    \cup {<<c>> : c \in forbidden_characters \cup {Chr.N, Chr.ideographic_space}}
    \cup {<<>>}

\* The arguments of the single caller of Spec.
Texts == {l \o b \o r : l \in UpTo(PadChars, MaxPad), b \in Bodies,
                        r \in UpTo(PadChars, MaxPad)}

\* The arguments of the concurrent callers of SpecCallers.
CallerTexts ==
  {<<>>, <<Chr.space>>, <<Chr.N, Chr.space, Chr.a>>, <<Chr.slash, Chr.mark>>,
   Rep(<<Chr.space>>, MaxGraphemes + 1),
   Rep(<<Chr.a, Chr.mark>>, MaxGraphemes),
   Rep(<<Chr.a>>, MaxGraphemes + 1) \o <<Chr.slash>>}

Callers == {1, 2}

\* The callers of the behaviour.
Threads == DOMAIN pc

\* ------------------------------------------------------------------ states

\* One caller, about to call UserName::parse(arg).
Init ==
  /\ arg \in [{1} -> Texts]
  /\ pc = [t \in {1} |-> "start"]
  /\ ret = [t \in {1} |-> NoResult]
  /\ name = [t \in {1} |-> NoName]

\* Two callers, each with its own String.
InitCallers ==
  /\ arg \in [Callers -> CallerTexts]
  /\ pc = [t \in Callers |-> "start"]
  /\ ret = [t \in Callers |-> NoResult]
  /\ name = [t \in Callers |-> NoName]

\* ----------------------------------------------------------------- actions

\* CheckEmpty testing the text itself, not its trimmed form.
CheckEmptyNoTrim(t) ==
  /\ pc[t] = "start"
  /\ LET is_empty_or_whitespace == is_empty(arg[t])
     IN IF is_empty_or_whitespace
          THEN /\ ret' = [ret EXCEPT ![t] = Err("UserNameIsEmpty")]
               /\ pc' = [pc EXCEPT ![t] = "returned"]
          ELSE /\ pc' = [pc EXCEPT ![t] = "length"]
               /\ UNCHANGED ret
  /\ UNCHANGED <<arg, name>>

\* CheckEmpty with the length test put before the emptiness test.
CheckEmptyAfterLength(t) ==
  /\ pc[t] = "start"
  /\ IF count(graphemes(arg[t])) > MaxGraphemes
       THEN /\ ret' = [ret EXCEPT ![t] = Err("UserNameTooLong")]
            /\ pc' = [pc EXCEPT ![t] = "returned"]
       ELSE IF is_empty(trim(arg[t]))
         THEN /\ ret' = [ret EXCEPT ![t] = Err("UserNameIsEmpty")]
              /\ pc' = [pc EXCEPT ![t] = "returned"]
         ELSE /\ pc' = [pc EXCEPT ![t] = "length"]
              /\ UNCHANGED ret
  /\ UNCHANGED <<arg, name>>

\* Lines 9-12: the emptiness check.
CheckEmpty(t) ==
  /\ pc[t] = "start"
  /\ LET is_empty_or_whitespace == is_empty(trim(arg[t]))
     IN IF is_empty_or_whitespace
          THEN /\ ret' = [ret EXCEPT ![t] = Err("UserNameIsEmpty")]
               /\ pc' = [pc EXCEPT ![t] = "returned"]
          ELSE /\ pc' = [pc EXCEPT ![t] = "length"]
               /\ UNCHANGED ret
  /\ UNCHANGED <<arg, name>>

\* CheckLength with the forbidden-character test put before the length test.
CheckLengthAfterForbidden(t) ==
  /\ pc[t] = "length"
  /\ IF contains_forbidden_characters(arg[t])
       THEN /\ ret' = [ret EXCEPT ![t] = Err("UserNameContainForbiddenCharacters")]
            /\ pc' = [pc EXCEPT ![t] = "returned"]
       ELSE IF count(graphemes(arg[t])) > MaxGraphemes
         THEN /\ ret' = [ret EXCEPT ![t] = Err("UserNameTooLong")]
              /\ pc' = [pc EXCEPT ![t] = "returned"]
         ELSE /\ pc' = [pc EXCEPT ![t] = "forbidden"]
              /\ UNCHANGED ret
  /\ UNCHANGED <<arg, name>>

\* CheckLength counting scalar values (s.chars().count()).
CheckLengthChars(t) ==
  /\ pc[t] = "length"
  /\ LET is_too_long == Len(arg[t]) > MaxGraphemes
     IN IF is_too_long
          THEN /\ ret' = [ret EXCEPT ![t] = Err("UserNameTooLong")]
               /\ pc' = [pc EXCEPT ![t] = "returned"]
          ELSE /\ pc' = [pc EXCEPT ![t] = "forbidden"]
               /\ UNCHANGED ret
  /\ UNCHANGED <<arg, name>>

\* CheckLength counting the clusters of the trimmed text.
CheckLengthTrimmed(t) ==
  /\ pc[t] = "length"
  /\ LET is_too_long == count(graphemes(trim(arg[t]))) > MaxGraphemes
     IN IF is_too_long
          THEN /\ ret' = [ret EXCEPT ![t] = Err("UserNameTooLong")]
               /\ pc' = [pc EXCEPT ![t] = "returned"]
          ELSE /\ pc' = [pc EXCEPT ![t] = "forbidden"]
               /\ UNCHANGED ret
  /\ UNCHANGED <<arg, name>>

\* CheckLength with an exclusive limit (>= 256).
CheckLengthExclusive(t) ==
  /\ pc[t] = "length"
  /\ LET is_too_long == count(graphemes(arg[t])) >= MaxGraphemes
     IN IF is_too_long
          THEN /\ ret' = [ret EXCEPT ![t] = Err("UserNameTooLong")]
               /\ pc' = [pc EXCEPT ![t] = "returned"]
          ELSE /\ pc' = [pc EXCEPT ![t] = "forbidden"]
               /\ UNCHANGED ret
  /\ UNCHANGED <<arg, name>>

\* CheckLength counting the clusters of a buffer all callers share, which
\* holds the argument of the caller of the highest number.
CheckLengthShared(t) ==
  /\ pc[t] = "length"
  /\ LET shared == arg[CHOOSE u \in Threads : \A v \in Threads : v <= u]
         is_too_long == count(graphemes(shared)) > MaxGraphemes
     IN IF is_too_long
          THEN /\ ret' = [ret EXCEPT ![t] = Err("UserNameTooLong")]
               /\ pc' = [pc EXCEPT ![t] = "returned"]
          ELSE /\ pc' = [pc EXCEPT ![t] = "forbidden"]
               /\ UNCHANGED ret
  /\ UNCHANGED <<arg, name>>

\* Lines 20-23: the length check.
CheckLength(t) ==
  /\ pc[t] = "length"
  /\ LET is_too_long == count(graphemes(arg[t])) > MaxGraphemes
     IN IF is_too_long
          THEN /\ ret' = [ret EXCEPT ![t] = Err("UserNameTooLong")]
               /\ pc' = [pc EXCEPT ![t] = "returned"]
          ELSE /\ pc' = [pc EXCEPT ![t] = "forbidden"]
               /\ UNCHANGED ret
  /\ UNCHANGED <<arg, name>>

\* CheckForbidden wrapping the trimmed text.
CheckForbiddenTrimmed(t) ==
  /\ pc[t] = "forbidden"
  /\ IF contains_forbidden_characters(arg[t])
       THEN ret' = [ret EXCEPT ![t] = Err("UserNameContainForbiddenCharacters")]
       ELSE ret' = [ret EXCEPT ![t] = Ok(UserName(trim(arg[t])))]
  /\ pc' = [pc EXCEPT ![t] = "returned"]
  /\ UNCHANGED <<arg, name>>

\* CheckForbidden comparing whole grapheme clusters with the forbidden
\* characters (s.graphemes(true).any(..)): a cluster of several scalars
\* matches none.
CheckForbiddenByCluster(t) ==
  /\ pc[t] = "forbidden"
  /\ IF \E i \in graphemes(arg[t]) :
          /\ arg[t][i] \in forbidden_characters
          /\ i = Len(arg[t]) \/ (i + 1) \in graphemes(arg[t])
       THEN ret' = [ret EXCEPT ![t] = Err("UserNameContainForbiddenCharacters")]
       ELSE ret' = [ret EXCEPT ![t] = Ok(UserName(arg[t]))]
  /\ pc' = [pc EXCEPT ![t] = "returned"]
  /\ UNCHANGED <<arg, name>>

\* Lines 25-32: the forbidden-character check and the successful return.
CheckForbidden(t) ==
  /\ pc[t] = "forbidden"
  /\ IF contains_forbidden_characters(arg[t])
       THEN ret' = [ret EXCEPT ![t] = Err("UserNameContainForbiddenCharacters")]
       ELSE ret' = [ret EXCEPT ![t] = Ok(UserName(arg[t]))]
  /\ pc' = [pc EXCEPT ![t] = "returned"]
  /\ UNCHANGED <<arg, name>>

\* The caller takes the UserName out of an Ok result.
Unwrap(t) ==
  /\ pc[t] = "returned" /\ ret[t].tag = "Ok" /\ name[t] = NoName
  /\ name' = [name EXCEPT ![t] = ret[t].val]
  /\ UNCHANGED <<arg, pc, ret>>

\* Line 5: the field is pub, so UserName(s) is an expression any caller can
\* write, without a call of parse.
Construct(t) ==
  /\ pc[t] = "start"
  /\ name' = [name EXCEPT ![t] = UserName(arg[t])]
  /\ pc' = [pc EXCEPT ![t] = "constructed"]
  /\ UNCHANGED <<arg, ret>>

\* Line 5: the field is pub, so a caller that owns a name can change its
\* String: name.0.push(c).
FieldPush(t, c) ==
  /\ name[t] # NoName
  /\ Len(as_ref(name[t])) < Len(arg[t]) + MaxPush
  /\ name' = [name EXCEPT ![t] = UserName(Append(as_ref(name[t]), c))]
  /\ UNCHANGED <<arg, pc, ret>>

NextParse ==
  \E t \in Threads : CheckEmpty(t) \/ CheckLength(t) \/ CheckForbidden(t)

Next ==
  \/ NextParse
  \/ \E t \in Threads : Unwrap(t) \/ Construct(t)
  \/ \E t \in Threads : \E c \in {Chr.a, Chr.slash} : FieldPush(t, c)

\* One call of UserName::parse.
Spec == Init /\ [][NextParse]_vars

\* A call that has started runs to its return.
FairSpec == Init /\ [][NextParse]_vars /\ WF_vars(NextParse)

\* Concurrent callers, which also use the public field.
SpecCallers == InitCallers /\ [][Next]_vars

\* ------------------------------------------------------------------ claims

\* The call of caller t has returned.
Returned(t) == pc[t] = "returned"

\* Every scalar of str is whitespace (so is the empty text).
AllWhitespace(str) == \A i \in 1..Len(str) : str[i] \in White_Space

\* No scalar of str is one of the nine forbidden characters.
NoForbidden(str) == \A i \in 1..Len(str) : str[i] \notin forbidden_characters

\* The number of extended grapheme clusters of str.
Clusters(str) == count(graphemes(str))

\* r1 and r2 are the same Result.
SameResult(r1, r2) == r1.tag = r2.tag /\ r1.val = r2.val

\* C1: a text that is empty or all whitespace is rejected with
\* UserNameIsEmpty, never accepted and never rejected with another error.
C1_EmptyRejected ==
  \A t \in Threads :
    Returned(t) /\ AllWhitespace(arg[t]) =>
      SameResult(ret[t], Err("UserNameIsEmpty"))

C1_Witness ==
  \E t \in Threads :
    /\ Returned(t) /\ Len(arg[t]) > 1 /\ AllWhitespace(arg[t])
    /\ \E i \in 1..Len(arg[t]) : arg[t][i] = Chr.ideographic_space
    /\ SameResult(ret[t], Err("UserNameIsEmpty"))

\* C2: a text that is not all whitespace, has at most 256 grapheme clusters
\* and no forbidden scalar is accepted, and the content of the returned
\* UserName is the text itself, scalar for scalar.
C2_ValidAcceptedVerbatim ==
  \A t \in Threads :
    Returned(t) /\ ~AllWhitespace(arg[t]) /\ Clusters(arg[t]) <= 256
        /\ NoForbidden(arg[t]) =>
      ret[t].tag = "Ok" /\ as_ref(ret[t].val) = arg[t]

C2_Witness ==
  \E t \in Threads :
    /\ Returned(t) /\ ret[t].tag = "Ok" /\ as_ref(ret[t].val) = arg[t]
    /\ Len(arg[t]) = 3
    /\ arg[t][1] = Chr.space /\ arg[t][2] = Chr.N /\ arg[t][3] = Chr.space

\* C3 as stated: a text of more than 256 grapheme clusters is rejected with
\* UserNameTooLong whatever its trimmed form and its characters are.
C3_Original ==
  \A t \in Threads :
    Returned(t) /\ Clusters(arg[t]) > 256 =>
      SameResult(ret[t], Err("UserNameTooLong"))

\* C3 as amended: a text of more than 256 grapheme clusters that is not all
\* whitespace is rejected with UserNameTooLong, whether or not it contains
\* forbidden characters.
C3_OverlongRejected ==
  \A t \in Threads :
    Returned(t) /\ Clusters(arg[t]) > 256 /\ ~AllWhitespace(arg[t]) =>
      SameResult(ret[t], Err("UserNameTooLong"))

C3_Witness ==
  \E t \in Threads :
    /\ Returned(t) /\ Clusters(arg[t]) > 256 /\ ~AllWhitespace(arg[t])
    /\ ~NoForbidden(arg[t])
    /\ SameResult(ret[t], Err("UserNameTooLong"))

\* C4: a text that is not all whitespace, has at most 256 grapheme clusters
\* and contains a forbidden scalar at any position, also inside a cluster of
\* several scalars, is rejected with UserNameContainForbiddenCharacters.
C4_ForbiddenRejected ==
  \A t \in Threads :
    Returned(t) /\ ~AllWhitespace(arg[t]) /\ Clusters(arg[t]) <= 256
        /\ ~NoForbidden(arg[t]) =>
      SameResult(ret[t], Err("UserNameContainForbiddenCharacters"))

C4_Witness ==
  \E t \in Threads :
    /\ Returned(t)
    /\ \E i \in 1..(Len(arg[t]) - 1) :
         /\ arg[t][i] \in forbidden_characters
         /\ arg[t][i + 1] = Chr.mark
         /\ \A j \in 1..Len(arg[t]) : j # i => arg[t][j] \notin forbidden_characters
    /\ SameResult(ret[t], Err("UserNameContainForbiddenCharacters"))

\* C5 as stated: a text of exactly 256 grapheme clusters with no forbidden
\* scalar is accepted, a text of 257 grapheme clusters is rejected with
\* UserNameTooLong.
C5_Original ==
  \A t \in Threads :
    Returned(t) =>
      /\ Clusters(arg[t]) = 256 /\ NoForbidden(arg[t]) => ret[t].tag = "Ok"
      /\ Clusters(arg[t]) = 257 => SameResult(ret[t], Err("UserNameTooLong"))

\* C5 as amended: of the texts that are not all whitespace, one of exactly
\* 256 grapheme clusters with no forbidden scalar is accepted, whatever its
\* number of scalars, and one of 257 grapheme clusters is rejected with
\* UserNameTooLong.
C5_InclusiveLimit ==
  \A t \in Threads :
    Returned(t) /\ ~AllWhitespace(arg[t]) =>
      /\ Clusters(arg[t]) = 256 /\ NoForbidden(arg[t]) => ret[t].tag = "Ok"
      /\ Clusters(arg[t]) = 257 => SameResult(ret[t], Err("UserNameTooLong"))

C5_Witness ==
  \E t \in Threads :
    /\ Returned(t) /\ Clusters(arg[t]) = 256 /\ Len(arg[t]) = 2 * 256
    /\ ret[t].tag = "Ok"

\* A text that passes all three rules.
Valid(str) ==
  ~AllWhitespace(str) /\ Clusters(str) <= 256 /\ NoForbidden(str)

\* C6: every UserName a caller holds satisfies the three rules.
C6_NamesAreValid ==
  \A t \in Threads : name[t] # NoName => Valid(as_ref(name[t]))

\* C7: each call returns what UserName::parse returns for its argument when
\* it runs alone, whatever the other callers do meanwhile, and two calls
\* with equal arguments return equal results.
C7_Deterministic ==
  /\ \A t \in Threads : Returned(t) => SameResult(ret[t], parse(arg[t]))
  /\ \A t, u \in Threads :
       Returned(t) /\ Returned(u) /\ arg[t] = arg[u] =>
         SameResult(ret[t], ret[u])

C7_Witness ==
  \E t, u \in Threads :
    /\ t # u /\ arg[t] = arg[u] /\ Returned(t) /\ Returned(u)
    /\ ret[t].tag = "Ok" /\ SameResult(ret[t], ret[u])

\* C8: the rules are evaluated in the order emptiness, length, forbidden
\* characters, and the first rule that fails gives the error: the length
\* check is reached only by a text that is not all whitespace, the forbidden
\* character check only by one that also has at most 256 grapheme clusters.
C8_FirstFailingRule ==
  \A t \in Threads :
    /\ pc[t] = "length" => ~AllWhitespace(arg[t])
    /\ pc[t] = "forbidden" =>
         ~AllWhitespace(arg[t]) /\ Clusters(arg[t]) <= 256
    /\ Returned(t) =>
         /\ AllWhitespace(arg[t]) => SameResult(ret[t], Err("UserNameIsEmpty"))
         /\ ~AllWhitespace(arg[t]) /\ Clusters(arg[t]) > 256 =>
              SameResult(ret[t], Err("UserNameTooLong"))
         /\ SameResult(ret[t], Err("UserNameContainForbiddenCharacters")) =>
              ~AllWhitespace(arg[t]) /\ Clusters(arg[t]) <= 256

C8_Witness ==
  \E t \in Threads :
    /\ Returned(t) /\ AllWhitespace(arg[t]) /\ Clusters(arg[t]) > 256
    /\ SameResult(ret[t], Err("UserNameIsEmpty"))

\* C9 as stated: a text whose trimmed form has at most 256 grapheme clusters
\* and whose untrimmed form has more than 256 is rejected with
\* UserNameTooLong.
C9_Original ==
  \A t \in Threads :
    Returned(t) /\ Clusters(trim(arg[t])) <= 256 /\ Clusters(arg[t]) > 256 =>
      SameResult(ret[t], Err("UserNameTooLong"))

\* C9 as amended: a text whose trimmed form is not empty and has at most 256
\* grapheme clusters and whose untrimmed form has more than 256 is rejected
\* with UserNameTooLong.
C9_UntrimmedCounted ==
  \A t \in Threads :
    Returned(t) /\ ~AllWhitespace(arg[t]) /\ Clusters(trim(arg[t])) <= 256
        /\ Clusters(arg[t]) > 256 =>
      SameResult(ret[t], Err("UserNameTooLong"))

C9_Witness ==
  \E t \in Threads :
    /\ Returned(t) /\ Clusters(trim(arg[t])) = 1 /\ Clusters(arg[t]) = 257
    /\ SameResult(ret[t], Err("UserNameTooLong"))

\* The outcome of a returned call is one of the four, and each error is
\* returned only under its condition.
C10_Outcomes ==
  \A t \in Threads :
    Returned(t) =>
      /\ \/ ret[t].tag = "Ok"
         \/ /\ ret[t].tag = "Err"
            /\ ret[t].val \in {"UserNameIsEmpty", "UserNameTooLong",
                               "UserNameContainForbiddenCharacters"}
      /\ SameResult(ret[t], Err("UserNameIsEmpty")) => AllWhitespace(arg[t])
      /\ SameResult(ret[t], Err("UserNameTooLong")) => Clusters(arg[t]) > 256
      /\ SameResult(ret[t], Err("UserNameContainForbiddenCharacters")) =>
           ~NoForbidden(arg[t])
      /\ Valid(arg[t]) => ret[t].tag = "Ok"

\* C10: every call returns, with one of the four outcomes, each error only
\* under its stated condition, and no valid text is rejected.
C10_TerminatesSound ==
  /\ []C10_Outcomes
  /\ <>(\A t \in Threads : Returned(t))

C10_Witness ==
  \E t \in Threads :
    /\ Returned(t) /\ Clusters(arg[t]) = 256 /\ Len(arg[t]) = 256
    /\ SameResult(ret[t], Err("UserNameContainForbiddenCharacters"))

====
